---------------------------- MODULE Spec2Model ----------------------------
(***************************************************************************)
(* A model of nova/api/openstack/common.py: list pagination (limited,      *)
(* limited_by_marker), the power-state/status table, get_id_from_href,     *)
(* the metadata XML codec and the check_snapshots_enabled decorator.       *)
(*                                                                         *)
(* Text (query parameters, hrefs, XML character data, status strings) is   *)
(* a sequence of one-character strings, so that parsing, formatting,       *)
(* escaping and case folding are computed and not assumed.                 *)
(***************************************************************************)
EXTENDS Integers, Sequences, FiniteSets, TLC

VARIABLES
    items,        \* the list handed to limited / limited_by_marker
    max_limit,    \* FLAGS.osapi_max_limit, the max_limit keyword argument
    GET,          \* request.GET: query parameter name -> text
    response,     \* what the last paginator call returned or raised
    client,       \* a client paging through items by marker
    status_call,  \* the last power_states_from_status call and its result
    power_call,   \* the last status_from_power_state call and its result
    href,         \* the argument of get_id_from_href
    href_result,  \* what get_id_from_href returned or raised
    metadata,     \* the mapping handed to the serializer
    xml_doc,      \* the document tree that was written to the wire
    wire,         \* the XML document on the wire
    body,         \* what the deserializer returned
    allow_instance_snapshots,  \* FLAGS.allow_instance_snapshots
    guarded       \* the decorated function: its invocations and the last outcome

pagerVars == <<items, max_limit, GET, response, client>>
statusVars == <<status_call, power_call>>
hrefVars == <<href, href_result>>
codecVars == <<metadata, xml_doc, wire, body>>
guardVars == <<allow_instance_snapshots, guarded>>

vars == <<items, max_limit, GET, response, client, status_call, power_call, href,
          href_result, metadata, xml_doc, wire, body, allow_instance_snapshots, guarded>>

(***************************************************************************)
(* Bounds of the model.                                                    *)
(***************************************************************************)
MaxLen == 3       \* longest list of items
MaxId == 2        \* item ids are 0 .. MaxId
MaxLimit == 3     \* max_limit ranges over 1 .. MaxLimit
MaxParam == 4     \* integers a client renders into a query parameter: -1 .. MaxParam
MaxSegs == 2      \* most segments in the path of an href
MaxChildren == 3  \* most children of the root element of a received document
MaxCalls == 6     \* most calls of the decorated function

Min(a, b) == IF a < b THEN a ELSE b
Max(a, b) == IF a > b THEN a ELSE b

(***************************************************************************)
(* Text <-> integer, as Python's int() and '%s' % n do it.                 *)
(***************************************************************************)
DigitChars == <<"0", "1", "2", "3", "4", "5", "6", "7", "8", "9">>

IsDigit(c) == \E d \in 1..10 : DigitChars[d] = c

DigitVal(c) == (CHOOSE d \in 1..10 : DigitChars[d] = c) - 1

RECURSIVE Digits(_)
Digits(n) ==
    IF n < 10 THEN <<DigitChars[n + 1]>>
    ELSE Digits(n \div 10) \o <<DigitChars[(n % 10) + 1]>>

\* '%s' % n, str(n): the decimal rendering of an integer
Str(n) == IF n < 0 THEN <<"-">> \o Digits(0 - n) ELSE Digits(n)

RECURSIVE StripLeft(_)
StripLeft(t) ==
    IF t # <<>> /\ Head(t) = " " THEN StripLeft(Tail(t)) ELSE t

RECURSIVE StripRight(_)
StripRight(t) ==
    IF t # <<>> /\ t[Len(t)] = " " THEN StripRight(SubSeq(t, 1, Len(t) - 1)) ELSE t

Unsigned(t) ==
    LET s == StripRight(StripLeft(t))
    IN  IF s # <<>> /\ Head(s) \in {"-", "+"} THEN Tail(s) ELSE s

\* int(t) does not raise ValueError: optional blanks, optional sign, digits
IsIntText(t) ==
    /\ Unsigned(t) # <<>>
    /\ \A i \in 1..Len(Unsigned(t)) : IsDigit(Unsigned(t)[i])

RECURSIVE DigitsVal(_)
DigitsVal(ds) ==
    IF ds = <<>> THEN 0
    ELSE 10 * DigitsVal(SubSeq(ds, 1, Len(ds) - 1)) + DigitVal(ds[Len(ds)])

\* int(t), for a text int() accepts
IntOf(t) ==
    LET s == StripRight(StripLeft(t))
    IN  IF Head(s) = "-" THEN 0 - DigitsVal(Unsigned(t)) ELSE DigitsVal(Unsigned(t))

(***************************************************************************)
(* Python's items[a:b] for 0 <= a, 0 <= b (the code raises before slicing  *)
(* on a negative offset or limit, and start_index is never negative at the *)
(* slice).                                                                 *)
(***************************************************************************)
PySlice(seq, a, b) == SubSeq(seq, Min(a, Len(seq)) + 1, Min(b, Len(seq)))

Ok(op, page) == [op |-> op, status |-> "ok", body |-> page, explanation |-> <<>>]

\* raise webob.exc.HTTPBadRequest(explanation=msg)
HTTPBadRequest(op, msg) ==
    [op |-> op, status |-> "HTTPBadRequest", body |-> <<>>, explanation |-> msg]

NoResponse == [op |-> "none", status |-> "none", body |-> <<>>, explanation |-> <<>>]

(***************************************************************************)
(* limited(items, request, max_limit)                                      *)
(***************************************************************************)
\* request.GET.get(param, default) as text; the default is rendered, int() of
\* an int default is the int itself
GetText(get, param, default) == IF param \in DOMAIN get THEN get[param] ELSE Str(default)

\* a faulty variant: the 'or max_limit' of line 134 left out
LimitedEffectiveLimitNoZeroRule(limit, maxl) == Min(maxl, limit)

\* limit = min(max_limit, limit or max_limit)
LimitedEffectiveLimit(limit, maxl) == Min(maxl, IF limit # 0 THEN limit ELSE maxl)

limited(its, get, maxl) ==
    LET offsetText == GetText(get, "offset", 0)
        limitText == GetText(get, "limit", maxl)
    IN  IF ~IsIntText(offsetText)
          THEN HTTPBadRequest("limited", <<"offset param must be an integer">>)
        ELSE IF ~IsIntText(limitText)
          THEN HTTPBadRequest("limited", <<"limit param must be an integer">>)
        ELSE IF IntOf(limitText) < 0
          THEN HTTPBadRequest("limited", <<"limit param must be positive">>)
        ELSE IF IntOf(offsetText) < 0
          THEN HTTPBadRequest("limited", <<"offset param must be positive">>)
        ELSE LET offset == IntOf(offsetText)
                 limit == LimitedEffectiveLimit(IntOf(limitText), maxl)
                 range_end == offset + limit
             IN  Ok("limited", PySlice(its, offset, range_end))

(***************************************************************************)
(* get_pagination_params(request): the params dict, or the error raised    *)
(***************************************************************************)
ParamError(get, param) ==
    IF param \notin DOMAIN get THEN <<>>
    ELSE IF ~IsIntText(get[param]) THEN <<"%s param must be an integer", param>>
    ELSE IF IntOf(get[param]) < 0 THEN <<"%s param must be positive", param>>
    ELSE <<>>

get_pagination_params(get) ==
    LET present == {"marker", "limit"} \cap DOMAIN get
    IN  IF ParamError(get, "marker") # <<>>
          THEN [error |-> ParamError(get, "marker"), params |-> <<>>]
        ELSE IF ParamError(get, "limit") # <<>>
          THEN [error |-> ParamError(get, "limit"), params |-> <<>>]
        ELSE [error |-> <<>>, params |-> [p \in present |-> IntOf(get[p])]]

(***************************************************************************)
(* limited_by_marker(items, request, max_limit)                            *)
(***************************************************************************)
\* a faulty variant: limited's zero-means-max rule applied here too
MarkerEffectiveLimitZeroRule(limit, maxl) == Min(maxl, IF limit # 0 THEN limit ELSE maxl)

\* limit = min(max_limit, limit)
MarkerEffectiveLimit(limit, maxl) == Min(maxl, limit)

\* 'if marker:' is false for an absent marker (None) and for the integer 0
MarkerIsTruthy(params) == "marker" \in DOMAIN params /\ params["marker"] # 0

\* the for loop with its break: i + 1 for the first i with items[i]['id'] ==
\* marker (items are numbered from 1 here, so that is the match's own index),
\* -1 when the loop ends without a match
MarkerStartIndex(its, marker) ==
    LET matches == {i \in 1..Len(its) : its[i].id = marker}
    IN  IF matches = {} THEN -1
        ELSE CHOOSE i \in matches : \A j \in matches : i <= j

limited_by_marker(its, get, maxl) ==
    LET got == get_pagination_params(get)
        params == got.params
        limit == MarkerEffectiveLimit(
                     IF "limit" \in DOMAIN params THEN params["limit"] ELSE maxl, maxl)
        start_index == IF MarkerIsTruthy(params)
                         THEN MarkerStartIndex(its, params["marker"])
                         ELSE 0
        range_end == start_index + limit
    IN  IF got.error # <<>> THEN HTTPBadRequest("limited_by_marker", got.error)
        ELSE IF start_index < 0
          THEN HTTPBadRequest("limited_by_marker",
                              <<"marker [%s] not found">> \o Str(params["marker"]))
        ELSE Ok("limited_by_marker", PySlice(its, start_index, range_end))

(***************************************************************************)
(* The requests of the model.  A parameter's text is the rendering of an   *)
(* integer of -1 .. MaxParam, or one of a few other texts: empty, not a    *)
(* number, and numbers int() accepts in another spelling.                  *)
(***************************************************************************)
OtherTexts == {<<>>, <<"x">>, <<"0", "2">>, <<"+", "1">>, <<" ", "3">>}

ParamTexts == {Str(n) : n \in -1..MaxParam} \cup OtherTexts

Requests(names) == UNION {[D -> ParamTexts] : D \in SUBSET names}

Item(n) == [id |-> n]

ItemLists == UNION {[1..n -> {Item(i) : i \in 0..MaxId}] : n \in 0..MaxLen}

NoClient == [pc |-> "idle", limit |-> 0, pages |-> <<>>, seen |-> <<>>, calls |-> 0]

StatusIdle == /\ status_call = <<>>
              /\ power_call = <<>>

HrefIdle == /\ href = <<>>
            /\ href_result = <<>>

CodecIdle == /\ metadata = <<>>
             /\ xml_doc = <<>>
             /\ wire = <<>>
             /\ body = <<>>

GuardIdle == /\ allow_instance_snapshots = FALSE
             /\ guarded = <<>>

(***************************************************************************)
(* The paginator serving one request over a list: both functions are pure, *)
(* so a behaviour is a list, a max_limit, and one call with its response.  *)
(***************************************************************************)
InitPager ==
    /\ items \in ItemLists
    /\ max_limit \in 1..MaxLimit
    /\ GET = <<>>
    /\ response = NoResponse
    /\ client = NoClient
    /\ StatusIdle /\ HrefIdle /\ CodecIdle /\ GuardIdle

Limited ==
    \E get \in Requests({"offset", "limit"}) :
        /\ response = NoResponse
        /\ client = NoClient
        /\ GET' = get
        /\ response' = limited(items, get, max_limit)
        /\ UNCHANGED <<items, max_limit, client, statusVars, hrefVars, codecVars, guardVars>>

LimitedByMarker ==
    \E get \in Requests({"marker", "limit"}) :
        /\ response = NoResponse
        /\ client = NoClient
        /\ GET' = get
        /\ response' = limited_by_marker(items, get, max_limit)
        /\ UNCHANGED <<items, max_limit, client, statusVars, hrefVars, codecVars, guardVars>>

NextPager == Limited \/ LimitedByMarker

Spec == InitPager /\ [][NextPager]_vars

(***************************************************************************)
(* A client paging by marker, as get_pagination_params documents it:       *)
(* 'marker' is the id of the last element the client has seen.  It asks    *)
(* for the first page without a marker, then for the page after the last   *)
(* item it received, and stops at the first empty page.                    *)
(***************************************************************************)
DistinctItemLists ==
    {l \in ItemLists : \A i, j \in 1..Len(l) : l[i].id = l[j].id => i = j}

InitClient ==
    /\ items \in DistinctItemLists
    /\ max_limit \in 1..MaxLimit
    /\ GET = <<>>
    /\ response = NoResponse
    /\ \E l \in 1..MaxLimit :
           client = [pc |-> "start", limit |-> l, pages |-> <<>>, seen |-> <<>>, calls |-> 0]
    /\ StatusIdle /\ HrefIdle /\ CodecIdle /\ GuardIdle

ClientCall(get) ==
    LET resp == limited_by_marker(items, get, max_limit)
    IN  /\ GET' = get
        /\ response' = resp
        /\ client' = [client EXCEPT
                        !.pc = IF resp.status = "ok" THEN "received" ELSE "failed",
                        !.pages = Append(@, resp.body),
                        !.seen = @ \o resp.body,
                        !.calls = @ + 1]
        /\ UNCHANGED <<items, max_limit, statusVars, hrefVars, codecVars, guardVars>>

LastPage == client.pages[Len(client.pages)]

ClientFirstCall ==
    /\ client.pc = "start"
    /\ ClientCall([p \in {"limit"} |-> Str(client.limit)])

\* the model stops a client that has made MaxLen + 2 calls: a client that is
\* served each item once needs at most MaxLen + 1
ClientNextCall ==
    /\ client.pc = "received"
    /\ LastPage # <<>>
    /\ client.calls <= MaxLen + 1
    /\ ClientCall([p \in {"marker", "limit"} |->
                      IF p = "marker" THEN Str(LastPage[Len(LastPage)].id)
                      ELSE Str(client.limit)])

ClientStop ==
    /\ client.pc = "received"
    /\ LastPage = <<>>
    /\ client' = [client EXCEPT !.pc = "done"]
    /\ UNCHANGED <<items, max_limit, GET, response, statusVars, hrefVars, codecVars,
                   guardVars>>

NextClient == ClientFirstCall \/ ClientNextCall \/ ClientStop

SpecClient == InitClient /\ [][NextClient]_vars

(***************************************************************************)
(* Claims about the paginator.                                             *)
(***************************************************************************)
\* the request gives parameter name as the decimal rendering of n
Sent(name, n) == name \in DOMAIN GET /\ GET[name] = Str(n)

\* ... or leaves it out, n being the default
SentOrDefault(name, n, default) ==
    \/ Sent(name, n)
    \/ name \notin DOMAIN GET /\ n = default

ParamInts == 0..Max(MaxParam, MaxLimit)

\* page holds exactly the items at indices [start, start + count) (from 0),
\* clipped to the end of the list
IsWindow(page, start, count) ==
    LET n == Max(0, Min(Len(items), start + count) - start)
    IN  /\ Len(page) = n
        /\ \A i \in 1..n : page[i] = items[start + i]

\* C1: for every offset >= 0 and limit >= 0 (absent: 0 and max_limit), limited
\* returns without error the run of items at [offset, offset + E) clipped to the
\* end of the list, E = max_limit when limit is 0 and min(max_limit, limit)
\* otherwise, and never more than max_limit items.
C1_LimitedWindow ==
    \A o, l \in ParamInts :
        ( /\ response.op = "limited"
          /\ SentOrDefault("offset", o, 0)
          /\ SentOrDefault("limit", l, max_limit) )
        => /\ response.status = "ok"
           /\ IsWindow(response.body, o, IF l = 0 THEN max_limit ELSE Min(max_limit, l))
           /\ Len(response.body) <= max_limit

\* limit=0 with an offset inside the list: a full page of max_limit items
C1_Witness ==
    /\ response.op = "limited"
    /\ Sent("limit", 0)
    /\ Sent("offset", 1)
    /\ max_limit = 2
    /\ Len(items) = 3
    /\ response.body = SubSeq(items, 2, 3)

\* C2: in limited_by_marker, a marker present in the request (any accepted
\* value, 0 included) that is the id of no item fails the call with the bad
\* request "marker [<marker>] not found", and no items are returned.
C2_MissingMarkerRejected ==
    \A m, l \in ParamInts :
        ( /\ response.op = "limited_by_marker"
          /\ Sent("marker", m)
          /\ SentOrDefault("limit", l, max_limit)
          /\ \A i \in 1..Len(items) : items[i].id # m )
        => /\ response.status = "HTTPBadRequest"
           /\ response.explanation = <<"marker [%s] not found">> \o Str(m)
           /\ response.body = <<>>

\* C3: in limited_by_marker, a marker present in the request that is the id of
\* some item makes the window start right after the FIRST such item and hold
\* min(max_limit, limit) items, clipped to the end of the list.
C3_WindowAfterFirstMatch ==
    \A m, l \in ParamInts :
        ( /\ response.op = "limited_by_marker"
          /\ Sent("marker", m)
          /\ SentOrDefault("limit", l, max_limit)
          /\ \E i \in 1..Len(items) : items[i].id = m )
        => LET first == CHOOSE i \in 1..Len(items) :
                            /\ items[i].id = m
                            /\ \A j \in 1..(i - 1) : items[j].id # m
           IN  /\ response.status = "ok"
               /\ IsWindow(response.body, first, Min(max_limit, l))

IsPrefix(s, t) == Len(s) <= Len(t) /\ s = SubSeq(t, 1, Len(s))

\* C10: over a list of pairwise distinct non-negative ids, the paging client
\* never gets an error, receives the items in order with none skipped and none
\* repeated, and has received the whole list when it stops.
C10_PagingVisitsEachItemOnce ==
    /\ client.pc # "failed"
    /\ IsPrefix(client.seen, items)
    /\ client.pc = "done" => client.seen = items

(***************************************************************************)
(* _STATUS_MAP, status_from_power_state, power_states_from_status          *)
(*                                                                         *)
(* A power state is named as the table names it (compute_power_state.X is  *)
(* "X", None is "None"); the members of the enumeration are distinct.      *)
(***************************************************************************)
BUILD == <<"B", "U", "I", "L", "D">>
ACTIVE == <<"A", "C", "T", "I", "V", "E">>
SUSPENDED == <<"S", "U", "S", "P", "E", "N", "D", "E", "D">>
PAUSED == <<"P", "A", "U", "S", "E", "D">>
SHUTDOWN == <<"S", "H", "U", "T", "D", "O", "W", "N">>
SHUTOFF == <<"S", "H", "U", "T", "O", "F", "F">>
ERROR == <<"E", "R", "R", "O", "R">>

PowerStates == {"NOSTATE", "RUNNING", "BLOCKED", "SUSPENDED", "PAUSED", "SHUTDOWN",
                "SHUTOFF", "CRASHED", "FAILED", "BUILDING"}

STATUS_MAP ==
    [p \in {"None"} \cup PowerStates |->
        CASE p \in {"None", "NOSTATE", "BUILDING"} -> BUILD
          [] p \in {"RUNNING", "BLOCKED"} -> ACTIVE
          [] p = "SUSPENDED" -> SUSPENDED
          [] p = "PAUSED" -> PAUSED
          [] p = "SHUTDOWN" -> SHUTDOWN
          [] p = "SHUTOFF" -> SHUTOFF
          [] p \in {"CRASHED", "FAILED"} -> ERROR]

UpperChars == <<"A", "B", "C", "D", "E", "F", "G", "H", "I", "J", "K", "L", "M",
                "N", "O", "P", "Q", "R", "S", "T", "U", "V", "W", "X", "Y", "Z">>
LowerChars == <<"a", "b", "c", "d", "e", "f", "g", "h", "i", "j", "k", "l", "m",
                "n", "o", "p", "q", "r", "s", "t", "u", "v", "w", "x", "y", "z">>

LowerChar(c) ==
    IF \E i \in 1..26 : UpperChars[i] = c
      THEN LowerChars[CHOOSE i \in 1..26 : UpperChars[i] = c]
      ELSE c

\* str.lower()
Lower(t) == [i \in 1..Len(t) |-> LowerChar(t[i])]

\* _STATUS_MAP[power_state], or KeyError
status_from_power_state(power_state) ==
    IF power_state \in DOMAIN STATUS_MAP
      THEN [state |-> power_state, status |-> "ok", result |-> STATUS_MAP[power_state]]
      ELSE [state |-> power_state, status |-> "KeyError", result |-> <<>>]

\* a faulty variant: the None key is not skipped
SkippedKeyNone(power_state) == FALSE

\* if power_state is None: continue
SkippedKey(power_state) == power_state = "None"

\* the power states the loop appends, as a set; the list the function returns
\* holds them in the dict's iteration order
power_states_from_status(status) ==
    {p \in DOMAIN STATUS_MAP : ~SkippedKey(p) /\ Lower(status) = Lower(STATUS_MAP[p])}

\* the lists without repetition of the members of a set
ListsOf(S) ==
    {l \in [1..Cardinality(S) -> S] : \A i, j \in 1..Cardinality(S) : l[i] = l[j] => i = j}

\* str.capitalize(): a third spelling of a status
Capitalized(t) == [i \in 1..Len(t) |-> IF i = 1 THEN t[i] ELSE LowerChar(t[i])]

StatusStrings == {BUILD, ACTIVE, SUSPENDED, PAUSED, SHUTDOWN, SHUTOFF, ERROR}

StatusInputs ==
    StatusStrings \cup {Lower(t) : t \in StatusStrings}
        \cup {Capitalized(t) : t \in StatusStrings}
        \cup {<<"D", "E", "L", "E", "T", "E", "D">>, <<>>}

PowerStateInputs == DOMAIN STATUS_MAP \cup {"MIGRATING"}

InitStatus ==
    /\ status_call = [status |-> <<>>, called |-> FALSE, result |-> <<>>]
    /\ power_call = [state |-> "None", status |-> "none", result |-> <<>>]
    /\ items = <<>> /\ max_limit = 0 /\ GET = <<>> /\ response = NoResponse
    /\ client = NoClient
    /\ HrefIdle /\ CodecIdle /\ GuardIdle

StatusFromPowerState ==
    \E p \in PowerStateInputs :
        /\ power_call' = status_from_power_state(p)
        /\ UNCHANGED <<status_call, pagerVars, hrefVars, codecVars, guardVars>>

PowerStatesFromStatus ==
    \E t \in StatusInputs :
        \E l \in ListsOf(power_states_from_status(t)) :
            /\ status_call' = [status |-> t, called |-> TRUE, result |-> l]
            /\ UNCHANGED <<power_call, pagerVars, hrefVars, codecVars, guardVars>>

NextStatus == StatusFromPowerState \/ PowerStatesFromStatus

SpecStatus == InitStatus /\ [][NextStatus]_vars

Elements(l) == {l[i] : i \in 1..Len(l)}

\* C8: for every status s of the closed set, every power state that
\* power_states_from_status(s) returns maps back to s under
\* status_from_power_state and is not None; and every power state p other than
\* None is among power_states_from_status(status_from_power_state(p)).
C8_StatusRoundTrip ==
    /\ ( /\ status_call.called
         /\ status_call.status \in StatusStrings )
       => \A p \in Elements(status_call.result) :
              /\ p # "None"
              /\ status_from_power_state(p).status = "ok"
              /\ status_from_power_state(p).result = status_call.status
    /\ ( /\ power_call.status = "ok"
         /\ power_call.state # "None"
         /\ status_call.called
         /\ status_call.status = power_call.result )
       => power_call.state \in Elements(status_call.result)

\* BUILD asked for, BUILDING mapped: both build states returned, None not
C8_Witness ==
    /\ status_call.called
    /\ status_call.status = BUILD
    /\ Elements(status_call.result) = {"NOSTATE", "BUILDING"}
    /\ power_call.status = "ok"
    /\ power_call.state = "BUILDING"
    /\ power_call.result = BUILD

(***************************************************************************)
(* get_id_from_href(href)                                                  *)
(***************************************************************************)
\* t.find(c), counting from 1; 0 when c is not in t
Find(t, c) ==
    IF \E i \in 1..Len(t) : t[i] = c
      THEN CHOOSE i \in 1..Len(t) : t[i] = c /\ \A j \in 1..(i - 1) : t[j] # c
      ELSE 0

\* the first index of t after position from that holds one of cs; Len(t) + 1
\* when there is none
FindAnyFrom(t, cs, from) ==
    IF \E i \in (from + 1)..Len(t) : t[i] \in cs
      THEN CHOOSE i \in (from + 1)..Len(t) :
               t[i] \in cs /\ \A j \in (from + 1)..(i - 1) : t[j] \notin cs
      ELSE Len(t) + 1

Before(t, c) == IF Find(t, c) = 0 THEN t ELSE SubSeq(t, 1, Find(t, c) - 1)

IsSchemeChar(c) ==
    \/ \E i \in 1..26 : c = UpperChars[i] \/ c = LowerChars[i]
    \/ IsDigit(c)
    \/ c \in {"+", "-", "."}

\* urlparse.urlsplit(url).path: the scheme up to the first ':' is cut off when
\* it is made of scheme characters, then '//' and the network location up to
\* the next '/', '?' or '#', then the fragment from the first '#' and the
\* query from the first '?'
UrlPath(url) ==
    LET i == Find(url, ":")
        hasScheme == i > 1 /\ \A j \in 1..(i - 1) : IsSchemeChar(url[j])
        rest == IF hasScheme THEN SubSeq(url, i + 1, Len(url)) ELSE url
        noNetloc == IF Len(rest) >= 2 /\ rest[1] = "/" /\ rest[2] = "/"
                      THEN SubSeq(rest, FindAnyFrom(rest, {"/", "?", "#"}, 2), Len(rest))
                      ELSE rest
    IN  Before(Before(noNetloc, "#"), "?")

\* path.split('/')[-1]: what follows the last '/', the whole path without one
LastSegment(path) ==
    LET slashes == {i \in 1..Len(path) : path[i] = "/"}
        b == IF slashes = {} THEN 0 ELSE CHOOSE i \in slashes : \A j \in slashes : j <= i
    IN  SubSeq(path, b + 1, Len(path))

get_id_from_href(h) ==
    IF IsIntText(h) THEN [status |-> "ok", value |-> IntOf(h)]
    ELSE IF IsIntText(LastSegment(UrlPath(h)))
      THEN [status |-> "ok", value |-> IntOf(LastSegment(UrlPath(h)))]
    ELSE [status |-> "ValueError", value |-> 0]

HrefPrefixes == {<<>>, <<"h", "t", "t", "p", ":", "/", "/", "h">>}

HrefSegments == {<<"b">>, <<"1", "2">>, <<"7">>, <<"v", "1", ".", "1">>}

RECURSIVE HrefPaths(_)
HrefPaths(n) ==
    IF n = 0 THEN {<<>>}
    ELSE HrefPaths(n - 1)
           \cup {p \o <<"/">> \o seg : p \in HrefPaths(n - 1), seg \in HrefSegments}

HrefTails == {<<>>, <<"?", "q", "=", "4">>, <<"#", "5">>, <<"?", "a", "/", "9">>}

BareHrefs == {<<"1", "2", "3">>, <<"a", "b", "c">>, <<"-", "5">>, <<"1", "2", "a">>,
              <<"b", "/", "7">>}

Hrefs ==
    BareHrefs \cup
    {pre \o path \o slash \o tail :
        pre \in HrefPrefixes, path \in HrefPaths(MaxSegs),
        slash \in {<<>>, <<"/">>}, tail \in HrefTails}

NoHrefResult == [status |-> "none", value |-> 0]

InitHref ==
    /\ href \in Hrefs
    /\ href_result = NoHrefResult
    /\ items = <<>> /\ max_limit = 0 /\ GET = <<>> /\ response = NoResponse
    /\ client = NoClient
    /\ StatusIdle /\ CodecIdle /\ GuardIdle

GetIdFromHref ==
    /\ href_result = NoHrefResult
    /\ href_result' = get_id_from_href(href)
    /\ UNCHANGED <<href, pagerVars, statusVars, codecVars, guardVars>>

NextHref == GetIdFromHref

SpecHref == InitHref /\ [][NextHref]_vars

\* the segments of a path between its '/' that are not empty, in order
RECURSIVE NonEmptySegments(_)
NonEmptySegments(path) ==
    IF path = <<>> THEN <<>>
    ELSE IF Head(path) = "/" THEN NonEmptySegments(Tail(path))
    ELSE LET seg == Before(path, "/")
         IN  <<seg>> \o NonEmptySegments(SubSeq(path, Len(seg) + 1, Len(path)))

\* C9: for an href that is not itself an integer, get_id_from_href returns the
\* integer value of the last non-empty '/'-separated segment of the URL's path
\* whenever that segment is an integer (also when a '/' follows it), and fails
\* only when neither the href nor that segment is an integer.
C9_LastNonEmptySegment ==
    ( /\ href_result # NoHrefResult
      /\ ~IsIntText(href) )
    => LET segs == NonEmptySegments(UrlPath(href))
           isId == segs # <<>> /\ IsIntText(segs[Len(segs)])
       IN  /\ isId => /\ href_result.status = "ok"
                       /\ href_result.value = IntOf(segs[Len(segs)])
           /\ href_result.status = "ValueError" => ~isId

(***************************************************************************)
(* The metadata XML codec.                                                 *)
(*                                                                         *)
(* A DOM node is a record; an attribute list is a sequence of <<name,      *)
(* value>> pairs.  The wire form of a document is its sequence of markup   *)
(* tokens (declaration, start tag, character data, end tag) with the       *)
(* character data and attribute values entity-escaped, as toxml() writes   *)
(* them and parseString() reads them.                                      *)
(***************************************************************************)
ElementNode(name, attrs, children) ==
    [nodeType |-> "ELEMENT", nodeName |-> name, attrs |-> attrs,
     childNodes |-> children, data |-> <<>>]

TextNode(data) ==
    [nodeType |-> "TEXT", nodeName |-> "#text", attrs |-> <<>>,
     childNodes |-> <<>>, data |-> data]

DocumentNode(children) ==
    [nodeType |-> "DOCUMENT", nodeName |-> "#document", attrs |-> <<>>,
     childNodes |-> children, data |-> <<>>]

None == [nodeType |-> "NONE", nodeName |-> "", attrs |-> <<>>, childNodes |-> <<>>,
         data |-> <<>>]

\* minidom's _write_data: & < " > are written as entities
EscapeChar(c) ==
    CASE c = "&" -> <<"&", "a", "m", "p", ";">>
      [] c = "<" -> <<"&", "l", "t", ";">>
      [] c = "\"" -> <<"&", "q", "u", "o", "t", ";">>
      [] c = ">" -> <<"&", "g", "t", ";">>
      [] OTHER -> <<c>>

RECURSIVE Escape(_)
Escape(t) == IF t = <<>> THEN <<>> ELSE EscapeChar(Head(t)) \o Escape(Tail(t))

EntityChar(name) ==
    CASE name = <<"a", "m", "p">> -> "&"
      [] name = <<"l", "t">> -> "<"
      [] name = <<"g", "t">> -> ">"
      [] name = <<"q", "u", "o", "t">> -> "\""
      [] name = <<"a", "p", "o", "s">> -> "'"

\* the parser's reading of character data: each &name; is one character
RECURSIVE Unescape(_)
Unescape(t) ==
    IF t = <<>> THEN <<>>
    ELSE IF Head(t) = "&"
      THEN <<EntityChar(SubSeq(t, 2, Find(t, ";") - 1))>>
               \o Unescape(SubSeq(t, Find(t, ";") + 1, Len(t)))
    ELSE <<Head(t)>> \o Unescape(Tail(t))

Token(kind, name, attrs, data) == [t |-> kind, name |-> name, attrs |-> attrs, data |-> data]

EscapeAttrs(attrs) == [i \in 1..Len(attrs) |-> <<attrs[i][1], Escape(attrs[i][2])>>]

\* the parser's reading of line ends: "\r\n" and a lone "\r" are "\n"
RECURSIVE NormalizeLineEnds(_)
NormalizeLineEnds(t) ==
    IF t = <<>> THEN <<>>
    ELSE IF Head(t) = "\r"
      THEN <<"\n">> \o NormalizeLineEnds(
                          IF Len(t) >= 2 /\ t[2] = "\n" THEN Tail(Tail(t)) ELSE Tail(t))
    ELSE <<Head(t)>> \o NormalizeLineEnds(Tail(t))

\* the parser's reading of an attribute value: after the line ends, each
\* literal tab and line feed is a space
NormalizeAttrValue(t) ==
    LET n == NormalizeLineEnds(t)
    IN  [i \in 1..Len(n) |-> IF n[i] \in {"\t", "\n"} THEN " " ELSE n[i]]

UnescapeAttrs(attrs) ==
    [i \in 1..Len(attrs) |-> <<attrs[i][1], Unescape(NormalizeAttrValue(attrs[i][2]))>>]

\* node.writexml: a text node writes its escaped data (nothing when it is
\* empty), an element its start tag, its children and its end tag
RECURSIVE WriteNodes(_)
WriteNodes(nodes) ==
    IF nodes = <<>> THEN <<>>
    ELSE LET n == Head(nodes)
             first == IF n.nodeType = "TEXT"
                        THEN IF n.data = <<>> THEN <<>>
                             ELSE <<Token("chars", "", <<>>, Escape(n.data))>>
                        ELSE <<Token("start", n.nodeName, EscapeAttrs(n.attrs), <<>>)>>
                               \o WriteNodes(n.childNodes)
                               \o <<Token("end", n.nodeName, <<>>, <<>>)>>
         IN  first \o WriteNodes(Tail(nodes))

\* xml_doc.toxml('UTF-8'): the XML declaration, then the document's children
toxml(doc) == <<Token("decl", "", <<>>, <<>>)>> \o WriteNodes(doc.childNodes)

\* the nodes a token sequence holds up to its first unmatched end tag, and
\* the tokens from that end tag on
RECURSIVE ParseNodes(_)
ParseNodes(toks) ==
    IF toks = <<>> \/ Head(toks).t = "end" THEN [nodes |-> <<>>, rest |-> toks]
    ELSE IF Head(toks).t = "decl" THEN ParseNodes(Tail(toks))
    ELSE IF Head(toks).t = "chars"
      THEN LET after == ParseNodes(Tail(toks))
           IN  [nodes |-> <<TextNode(Unescape(NormalizeLineEnds(Head(toks).data)))>>
                             \o after.nodes,
                rest |-> after.rest]
    ELSE LET inner == ParseNodes(Tail(toks))
             after == ParseNodes(Tail(inner.rest))
         IN  [nodes |-> <<ElementNode(Head(toks).name, UnescapeAttrs(Head(toks).attrs),
                                      inner.nodes)>> \o after.nodes,
              rest |-> after.rest]

\* minidom.parseString(datastring), for a well-formed document
parseString(datastring) == DocumentNode(ParseNodes(datastring).nodes)

\* node.getAttribute(name): the value, "" when the node has no such attribute
getAttribute(node, name) ==
    LET at == {i \in 1..Len(node.attrs) : node.attrs[i][1] = name}
    IN  IF at = {} THEN <<>> ELSE node.attrs[CHOOSE i \in at : TRUE][2]

\* node.setAttribute(name, value) on a node that has no such attribute yet
setAttribute(node, name, value) == [node EXCEPT !.attrs = Append(@, <<name, value>>)]

\* wsgi.XMLDeserializer.find_first_child_named(parent, name)
find_first_child_named(parent, name) ==
    LET named == {i \in 1..Len(parent.childNodes) : parent.childNodes[i].nodeName = name}
    IN  IF named = {} THEN None
        ELSE parent.childNodes[CHOOSE i \in named : \A j \in named : i <= j]

\* wsgi.XMLDeserializer.find_children_named(parent, name), in document order
RECURSIVE ChildrenNamed(_, _)
ChildrenNamed(nodes, name) ==
    IF nodes = <<>> THEN <<>>
    ELSE (IF Head(nodes).nodeName = name THEN <<Head(nodes)>> ELSE <<>>)
           \o ChildrenNamed(Tail(nodes), name)

find_children_named(parent, name) == ChildrenNamed(parent.childNodes, name)

\* wsgi.XMLDeserializer.extract_text(node): the text of a node whose only
\* child is a text node, "" otherwise
extract_text(node) ==
    IF Len(node.childNodes) = 1 /\ node.childNodes[1].nodeType = "TEXT"
      THEN node.childNodes[1].data
      ELSE <<>>

\* a faulty variant: dict.setdefault, the first occurrence of a key wins
DictSetDefault(d, k, v) ==
    [x \in DOMAIN d \cup {k} |-> IF x \in DOMAIN d THEN d[x] ELSE v]

\* metadata[key] = value
DictSet(d, k, v) == [x \in DOMAIN d \cup {k} |-> IF x = k THEN v ELSE d[x]]

EmptyDict == [x \in {} |-> <<>>]

\* the for loop of extract_metadata over the meta nodes
RECURSIVE ExtractLoop(_, _)
ExtractLoop(md, meta_nodes) ==
    IF meta_nodes = <<>> THEN md
    ELSE ExtractLoop(DictSet(md, getAttribute(Head(meta_nodes), "key"),
                             extract_text(Head(meta_nodes))),
                     Tail(meta_nodes))

extract_metadata(metadata_node) ==
    IF metadata_node = None THEN EmptyDict
    ELSE ExtractLoop(EmptyDict, find_children_named(metadata_node, "meta"))

\* _extract_metadata_container(datastring), which create and update_all return
extract_metadata_container(datastring) ==
    LET dom == parseString(datastring)
        metadata_node == find_first_child_named(dom, "metadata")
    IN  [body |-> [metadata |-> extract_metadata(metadata_node)]]

(***************************************************************************)
(* MetadataXMLSerializer                                                   *)
(***************************************************************************)
\* wsgi.XMLNS_V11
XMLNS == <<"h", "t", "t", "p", ":", "/", "/", "d", "o", "c", "s", ".", "o", "p", "e",
           "n", "s", "t", "a", "c", "k", ".", "o", "r", "g", "/", "c", "o", "m", "p",
           "u", "t", "e", "/", "a", "p", "i", "/", "v", "1", ".", "1">>

\* a faulty variant: node.appendChild(text) left out
meta_item_to_xml_no_text(key, value) ==
    setAttribute(ElementNode("meta", <<>>, <<>>), "key", key)

\* _meta_item_to_xml(doc, key, value): '%s' % of a string is the string
meta_item_to_xml(key, value) ==
    [setAttribute(ElementNode("meta", <<>>, <<>>), "key", key)
        EXCEPT !.childNodes = Append(@, TextNode(value))]

\* meta_list_to_xml(xml_doc, meta_items): each item node is appended to the
\* container, which takes it out of xml_doc again
meta_list_to_xml(meta_items) ==
    ElementNode("metadata", <<>>,
                [i \in 1..Len(meta_items) |->
                    meta_item_to_xml(meta_items[i][1], meta_items[i][2])])

\* wsgi.XMLDictSerializer._add_xmlns(node)
add_xmlns(node) == setAttribute(node, "xmlns", XMLNS)

\* the document _meta_list_to_xml_string builds from the dict's items
meta_list_to_xml_doc(meta_items) == DocumentNode(<<add_xmlns(meta_list_to_xml(meta_items))>>)

\* dict.items(): the (key, value) pairs, in an order the dict chooses
DictItems(d) == ListsOf({<<k, d[k]>> : k \in DOMAIN d})

MetaKeys == {<<>>, <<"k">>, <<"a", "&", "\"">>, <<"a", "\n", "b">>}

MetaValues == {<<>>, <<"v", " ", "\n">>, <<"1", "<", "2", "&", "g", "t", ";">>,
               <<"x", "\r", "y">>}

Mappings == UNION {[D -> MetaValues] : D \in SUBSET MetaKeys}

NoDocument == DocumentNode(<<>>)

NoBody == [returned |-> FALSE, value |-> [body |-> [metadata |-> EmptyDict]]]

InitCodec ==
    /\ metadata \in Mappings
    /\ xml_doc = NoDocument
    /\ wire = <<>>
    /\ body = NoBody
    /\ items = <<>> /\ max_limit = 0 /\ GET = <<>> /\ response = NoResponse
    /\ client = NoClient
    /\ StatusIdle /\ HrefIdle /\ GuardIdle

\* MetadataXMLSerializer.index / create / update_all
Serialize ==
    /\ wire = <<>>
    /\ \E meta_items \in DictItems(metadata) :
           /\ xml_doc' = meta_list_to_xml_doc(meta_items)
           /\ wire' = toxml(meta_list_to_xml_doc(meta_items))
    /\ UNCHANGED <<metadata, body, pagerVars, statusVars, hrefVars, guardVars>>

\* MetadataXMLDeserializer.create / update_all
Deserialize ==
    /\ wire # <<>>
    /\ ~body.returned
    /\ body' = [returned |-> TRUE, value |-> extract_metadata_container(wire)]
    /\ UNCHANGED <<metadata, xml_doc, wire, pagerVars, statusVars, hrefVars, guardVars>>

NextCodec == Serialize \/ Deserialize

SpecCodec == InitCodec /\ [][NextCodec]_vars

(***************************************************************************)
(* The deserializer reading a document a client wrote.                     *)
(***************************************************************************)
ClientKeys == {<<"k">>, <<"a", "&", "\"">>}

ClientTexts == {<<>>, <<"v">>, <<"1", "<", "2", "&", "g", "t", ";">>}

ClientElement(name, attrs, text) ==
    ElementNode(name, attrs, IF text = <<>> THEN <<>> ELSE <<TextNode(text)>>)

ClientChildren ==
    {ClientElement("meta", <<<<"key", k>>>>, t) : k \in ClientKeys, t \in ClientTexts}
        \cup {ClientElement("meta", <<>>, <<"v">>),
              ClientElement("other", <<<<"key", <<"k">>>>>>, <<"v">>),
              TextNode(<<" ">>)}

ClientDocuments ==
    {DocumentNode(<<ElementNode(root, <<>>, children)>>) :
        root \in {"metadata", "meta", "servers"},
        children \in UNION {[1..n -> ClientChildren] : n \in 0..MaxChildren}}

InitDecoder ==
    /\ metadata = EmptyDict
    /\ xml_doc = NoDocument
    /\ wire = <<>>
    /\ body = NoBody
    /\ items = <<>> /\ max_limit = 0 /\ GET = <<>> /\ response = NoResponse
    /\ client = NoClient
    /\ StatusIdle /\ HrefIdle /\ GuardIdle

Receive ==
    /\ wire = <<>>
    /\ \E doc \in ClientDocuments :
           /\ xml_doc' = doc
           /\ wire' = toxml(doc)
    /\ UNCHANGED <<metadata, body, pagerVars, statusVars, hrefVars, guardVars>>

NextDecoder == Receive \/ Deserialize

SpecDecoder == InitDecoder /\ [][NextDecoder]_vars

\* C5: decoding with the container decoder the document the container
\* encoder wrote for {'metadata': M} gives a body whose 'metadata' is M,
\* whatever the order the encoder wrote the entries in.
C5_RoundTrip == body.returned => body.value.body.metadata = metadata

Has(t, cs) == \E i \in 1..Len(t) : t[i] \in cs

\* no key holds a tab, a line feed or a carriage return, no value a carriage
\* return
PlainMapping(md) ==
    /\ \A k \in DOMAIN md : ~Has(k, {"\t", "\n", "\r"})
    /\ \A k \in DOMAIN md : ~Has(md[k], {"\r"})

\* C5, amended: the round trip gives M back for every mapping M in which no
\* key holds a tab, line feed or carriage return and no value holds a carriage
\* return, whatever the order the encoder wrote the entries in.
C5_RoundTripPlain ==
    (body.returned /\ PlainMapping(metadata)) => body.value.body.metadata = metadata

\* three entries, written first-key-last, with characters that are escaped
C5_Witness ==
    /\ body.returned
    /\ DOMAIN metadata = {<<>>, <<"k">>, <<"a", "&", "\"">>}
    /\ metadata[<<"a", "&", "\"">>] = <<"1", "<", "2", "&", "g", "t", ";">>
    /\ metadata[<<"k">>] = <<"v", " ", "\n">>
    /\ metadata[<<>>] = <<>>
    /\ getAttribute(xml_doc.childNodes[1].childNodes[3], "key") = <<>>
    /\ body.value.body.metadata = metadata

\* the key and the text a client's document gives a child
ChildKey(node) ==
    IF \E i \in 1..Len(node.attrs) : node.attrs[i][1] = "key"
      THEN node.attrs[CHOOSE i \in 1..Len(node.attrs) : node.attrs[i][1] = "key"][2]
      ELSE <<>>

ChildText(node) == IF node.childNodes = <<>> THEN <<>> ELSE node.childNodes[1].data

\* C6: the container decoder returns the mapping whose keys are the key
\* attributes of the 'meta' children of the top-level 'metadata' element, each
\* mapped to the text of the LAST 'meta' child with that key; other children
\* add nothing, and a document without a top-level 'metadata' element decodes
\* to the empty mapping.
C6_DecodedMapping ==
    body.returned =>
        LET root == xml_doc.childNodes[1]
            kids == root.childNodes
            metas == IF root.nodeName = "metadata"
                       THEN {i \in 1..Len(kids) : kids[i].nodeName = "meta"}
                       ELSE {}
            md == body.value.body.metadata
        IN  /\ DOMAIN md = {ChildKey(kids[i]) : i \in metas}
            /\ \A i \in metas :
                   (\A j \in metas : j > i => ChildKey(kids[j]) # ChildKey(kids[i]))
                   => md[ChildKey(kids[i])] = ChildText(kids[i])

\* a key given twice with different texts, and a child that is not a meta
C6_Witness ==
    /\ body.returned
    /\ xml_doc.childNodes[1].nodeName = "metadata"
    /\ Len(xml_doc.childNodes[1].childNodes) = 3
    /\ xml_doc.childNodes[1].childNodes[1] = ClientElement("meta", <<<<"key", <<"k">>>>>>, <<"v">>)
    /\ xml_doc.childNodes[1].childNodes[2].nodeName = "other"
    /\ xml_doc.childNodes[1].childNodes[3] =
           ClientElement("meta", <<<<"key", <<"k">>>>>>, <<"1", "<", "2", "&", "g", "t", ";">>)
    /\ body.value.body.metadata[<<"k">>] = <<"1", "<", "2", "&", "g", "t", ";">>

(***************************************************************************)
(* check_snapshots_enabled(f)                                              *)
(*                                                                         *)
(* guarded is the decorated function as its caller sees it: how often      *)
(* inner was called, how often f ran, how often the rejection was logged,  *)
(* and the argument and outcome of the last call.                          *)
(***************************************************************************)
\* the wrapped function: what it returns for an argument
f(arg) == [snapshot_of |-> arg]

NotPermitted == "Instance snapshots are not permitted at this time."

\* a faulty variant: f runs before the flag is looked at
inner_checks_after(flag, g, arg) ==
    IF ~flag
      THEN [g EXCEPT !.calls = @ + 1, !.invoked = @ + 1, !.warned = @ + 1, !.arg = arg,
                     !.outcome = [status |-> "HTTPBadRequest", value |-> f(0),
                                  explanation |-> NotPermitted]]
      ELSE [g EXCEPT !.calls = @ + 1, !.invoked = @ + 1, !.arg = arg,
                     !.outcome = [status |-> "ok", value |-> f(arg), explanation |-> ""]]

\* inner(*args, **kwargs), flag being FLAGS.allow_instance_snapshots as read
\* in the call
inner(flag, g, arg) ==
    IF ~flag
      THEN [g EXCEPT !.calls = @ + 1, !.warned = @ + 1, !.arg = arg,
                     !.outcome = [status |-> "HTTPBadRequest", value |-> f(0),
                                  explanation |-> NotPermitted]]
      ELSE [g EXCEPT !.calls = @ + 1, !.invoked = @ + 1, !.arg = arg,
                     !.outcome = [status |-> "ok", value |-> f(arg), explanation |-> ""]]

Args == {1, 2}

InitGuard ==
    /\ allow_instance_snapshots \in BOOLEAN
    /\ guarded = [calls |-> 0, invoked |-> 0, warned |-> 0, arg |-> 0,
                  outcome |-> [status |-> "none", value |-> f(0), explanation |-> ""]]
    /\ items = <<>> /\ max_limit = 0 /\ GET = <<>> /\ response = NoResponse
    /\ client = NoClient
    /\ StatusIdle /\ HrefIdle /\ CodecIdle

\* the flag is set, by configuration, between calls
SetFlag ==
    /\ allow_instance_snapshots' = ~allow_instance_snapshots
    /\ UNCHANGED <<guarded, pagerVars, statusVars, hrefVars, codecVars>>

CallGuarded ==
    /\ guarded.calls < MaxCalls
    /\ \E arg \in Args : guarded' = inner(allow_instance_snapshots, guarded, arg)
    /\ UNCHANGED <<allow_instance_snapshots, pagerVars, statusVars, hrefVars, codecVars>>

NextGuard == SetFlag \/ CallGuarded

SpecGuard == InitGuard /\ [][NextGuard]_vars

\* C7: each call of the decorated function runs the wrapped function exactly
\* once and returns its result if allow_instance_snapshots is true at that
\* call, and otherwise raises the bad request without running it (its
\* side-effect counter stays as it was).
C7_GuardDecidesAtCallTime ==
    [][ guarded'.calls = guarded.calls + 1 =>
          IF allow_instance_snapshots
            THEN /\ guarded'.invoked = guarded.invoked + 1
                 /\ guarded'.outcome.status = "ok"
                 /\ guarded'.outcome.value = f(guarded'.arg)
            ELSE /\ guarded'.invoked = guarded.invoked
                 /\ guarded'.outcome.status = "HTTPBadRequest"
                 /\ guarded'.outcome.explanation = NotPermitted ]_vars

\* a call that ran, the flag cleared, then a call that was rejected
C7_Witness ==
    /\ guarded.calls = 2
    /\ guarded.invoked = 1
    /\ guarded.warned = 1
    /\ guarded.outcome.status = "HTTPBadRequest"
    /\ ~allow_instance_snapshots

====
